---- MODULE Spec2Model ----
(***************************************************************************)
(* Model of the trading dashboard's polling and aggregation engine:        *)
(*   - the shared API client (api.ts): apiFetch, the platform filter and   *)
(*     the per-strategy fan-out / join of trades;                          *)
(*   - the health evaluator of StrategyHealth (buildAlerts);               *)
(*   - the polling effects of the views (useEffect + setInterval), with    *)
(*     and without the per-effect `active` flag.                           *)
(* The specifications share the variables:                                 *)
(*   AggSpec        one call of an aggregation function of api.ts, its     *)
(*                  sub-requests completing in any order;                  *)
(*   AlertSpec      buildAlerts applied to bounded inputs;                 *)
(*   HealthFnSpec   timeAgo and computeSignalsPerHour;                     *)
(*   EquitySpec     the drawdown rows of EquityCurve;                      *)
(*   TableSpec      sort, filters and hold time of the table views;        *)
(*   Spec           a mounted view: mount, platform change, unmount,       *)
(*                  timer ticks and responses in any order;                *)
(*   FeedSpec       one read of a JSONL feed;                              *)
(*   HungSpec       a view whose first request is never answered;          *)
(*   HealthViewSpec StrategyHealth with its tick effect;                   *)
(*   RankSpec       the rank-table sorts of AlertsViewer and TradesLog;    *)
(*   FmtSpec        fmtHold;                                               *)
(*   ExpandSpec     the row expansion of TradeExplorer.                    *)
(***************************************************************************)
EXTENDS Integers, Sequences, FiniteSets, TLC

VARIABLES
  srv,        \* the server's strategies: index -> exchanges field
  call,       \* AggSpec: the aggregation call in progress
  hin,        \* AlertSpec: the inputs of buildAlerts
  hout,       \* AlertSpec: the alerts it returned
  view,       \* Spec: the component that is mounted
  mounted,    \* Spec: whether it still is
  platform,   \* Spec: its `platform` prop
  effects,    \* Spec: the runs of its polling effect, oldest first
  loads,      \* Spec: the fetch cycles in flight
  issued,     \* Spec: how many cycles were started so far
  ui,         \* Spec: the component's state (useState)
  clock       \* Spec: what Date.now() reads, in milliseconds

pureVars == <<call, hin, hout>>
pollVars == <<view, mounted, platform, effects, loads, issued, ui, clock>>
vars == <<srv, call, hin, hout, view, mounted, platform, effects, loads,
          issued, ui, clock>>

(***************************************************************************)
(* Bounds                                                                  *)
(***************************************************************************)
NumStrategies == 3

\* Spec: cycles started, cycles in flight at once
MaxLoads == 3
MaxInFlight == 2

(***************************************************************************)
(* Server data (external collaborator): what the endpoints answer.         *)
(***************************************************************************)
Platforms == {"polymarket", "hyperliquid"}

StrategyNames ==
  <<"polymarket_pure", "hyperliquid_funding", "polymarket_strength",
    "hyperliquid_oi", "alpha", "beta">>

StrategyIds == DOMAIN srv

\* The `exchanges` field of a strategy: absent, or an array of platform tags.
NoExchanges == [defined |-> FALSE, items |-> <<>>]
ExchangeValues ==
  { NoExchanges,
    [defined |-> TRUE, items |-> <<>>],
    [defined |-> TRUE, items |-> <<"polymarket">>],
    [defined |-> TRUE, items |-> <<"hyperliquid">>],
    [defined |-> TRUE, items |-> <<"polymarket", "hyperliquid">>] }

\* The health figures of the strategies, in hundredths: the 1st is
\* enabled and past the drawdown limit, the 2nd disabled and deep in loss,
\* the others enabled and sound.
StrategyEnabled(i) == i # 2
StrategyMaxDrawdown(i) == IF i = 1 THEN 620 ELSE 0
StrategyTotalPnl(i) == IF i = 2 THEN 0 - 50001 ELSE 0 - 12000

\* GET /api/strategies answers { strategies: [...] }, in server order.
StrategyRec(i) ==
  [name |-> StrategyNames[i], exchanges |-> srv[i],
   enabled |-> StrategyEnabled(i), maxDrawdown |-> StrategyMaxDrawdown(i),
   totalPnl |-> StrategyTotalPnl(i)]
ServerStrategies == [i \in StrategyIds |-> StrategyRec(i)]

\* GET /api/strategies/:name/trades answers the trades of that strategy.
\* Trade ids are unique within one strategy only; metadata names the log
\* the record was read from.
RawTrade(id, status, name) ==
  [id |-> id, status |-> status, metadata |-> [source |-> name]]

ServerTradesOf(name) ==
  IF name \in {"polymarket_pure", "hyperliquid_oi"}
    THEN <<RawTrade(1, "CLOSED", name), RawTrade(2, "OPEN", name)>>
    ELSE IF name \in {"hyperliquid_funding", "alpha"}
      THEN <<RawTrade(1, "OPEN", name)>>
      ELSE <<>>

IsOpen(t) == t.status = "OPEN"

\* GET /api/strategies/:name/signals answers the signals newest first.
RawSignal(id, minute, name) ==
  [id |-> id, timestamp |-> minute * 60000, metadata |-> [source |-> name]]

ServerSignals(name) ==
  IF name = "polymarket_pure"
    THEN <<RawSignal(2, 1000, name), RawSignal(1, 940, name)>>
    ELSE IF name = "hyperliquid_funding"
      THEN <<RawSignal(1, 1000, name)>>
      ELSE <<>>

\* GET /api/strategies/:name/docs
ServerDocs(name) == [name |-> name, description |-> "docs"]

\* GET /api/summary, /api/health, /api/equity-curve
ServerSummary == [totalEquity |-> 10000, unrealisedPnl |-> 0]
ServerHealth  == [status |-> "healthy"]
ServerEquity  == <<[timestamp |-> 1, totalEquity |-> 100],
                   [timestamp |-> 2, totalEquity |-> 90]>>

ServerTrades(name, openOnly) ==
  IF openOnly THEN SelectSeq(ServerTradesOf(name), IsOpen)
              ELSE ServerTradesOf(name)

(***************************************************************************)
(* api.ts                                                                  *)
(***************************************************************************)
Includes(arr, x) == \E i \in DOMAIN arr : arr[i] = x

NamePrefix(name) ==
  IF name \in {"polymarket_pure", "polymarket_strength"} THEN "polymarket"
  ELSE IF name \in {"hyperliquid_funding", "hyperliquid_oi"} THEN "hyperliquid"
  ELSE "none"

OnPlatformByName(s, p) == NamePrefix(s.name) = p

\* s.exchanges?.includes(platform)
OnPlatform(s, p) ==
  s.exchanges.defined /\ Includes(s.exchanges.items, p)

AggFns ==
  {"fetchTradesByPlatform", "fetchOpenPositionsByPlatform",
   "fetchAllTrades", "fetchOpenPositions"}

ByPlatform(fn) == fn \in {"fetchTradesByPlatform", "fetchOpenPositionsByPlatform"}
OpenOnly(fn)   == fn \in {"fetchOpenPositionsByPlatform", "fetchOpenPositions"}

\* The strategies a call fans out over, as positions of the strategies
\* response: fetchStrategiesByPlatform(platform).strategies, or all of them.
fetchStrategiesByPlatform(p) ==
  { i \in StrategyIds : OnPlatform(ServerStrategies[i], p) }

\* The fan-outs of the views: StrategyHealth asks the signals of every
\* strategy, StrategyDocs the docs of the strategies of the platform,
\* StrategyComparison asks the strategies alone.
ViewFns == {"fetchStrategySignals", "fetchStrategyDocs", "fetchStrategies"}

Selected(fn, p) ==
  IF ByPlatform(fn) \/ fn = "fetchStrategyDocs"
    THEN fetchStrategiesByPlatform(p)
  ELSE IF fn = "fetchStrategies" THEN {}
  ELSE StrategyIds

TagWithFirst(t, s) == t @@ [strategy |-> StrategyNames[1]]

\* ({ ...t, strategy: s.name })
Tag(t, s) == t @@ [strategy |-> s.name]

\* r.trades.map(t => ({ ...t, strategy: s.name }))
TagAll(trades, s) == [k \in DOMAIN trades |-> Tag(trades[k], s)]

RECURSIVE FlatFrom(_, _)
FlatFrom(results, i) ==
  IF i > Len(results) THEN <<>>
  ELSE results[i] \o FlatFrom(results, i + 1)

\* results.flat(): the per-strategy arrays, concatenated in input order
Flat(results) == FlatFrom(results, 1)

NoSub   == [st |-> "none", recs |-> <<>>]
Pending == [st |-> "pending", recs |-> <<>>]

IdleCall ==
  [fn |-> "none", platform |-> "none", state |-> "idle",
   strategies |-> "idle", subs |-> [i \in StrategyIds |-> NoSub], value |-> <<>>]

\* The call as it stands right after `await fetchStrategies()` is issued.
StartCall(fn, p) ==
  [IdleCall EXCEPT !.fn = fn, !.platform = p, !.state = "pending",
                   !.strategies = "pending"]

SettleOnFirst(c) ==
  IF c.state # "pending" THEN c
  ELSE IF \E i \in StrategyIds : c.subs[i].st = "fail"
    THEN [c EXCEPT !.state = "rejected"]
  ELSE IF \E i \in StrategyIds : c.subs[i].st \in {"ok", "caught"}
    THEN [c EXCEPT !.state = "fulfilled",
                   !.value = Flat([i \in StrategyIds |-> c.subs[i].recs])]
  ELSE c

\* Promise.all over the sub-requests: rejected by the first rejection,
\* fulfilled once every one is fulfilled (at once for an empty array).
\* A sub-request whose rejection was caught counts as fulfilled.
Settle(c) ==
  IF c.state # "pending" THEN c
  ELSE IF \E i \in StrategyIds : c.subs[i].st = "fail"
    THEN [c EXCEPT !.state = "rejected"]
  ELSE IF \A i \in StrategyIds : c.subs[i].st \in {"none", "ok", "caught"}
    THEN [c EXCEPT !.state = "fulfilled",
                   !.value = Flat([i \in StrategyIds |-> c.subs[i].recs])]
  ELSE c

\* strategies.map(s => <sub-request of s>)
FanOut(c) ==
  Settle([c EXCEPT !.subs = [i \in StrategyIds |->
                               IF i \in Selected(c.fn, c.platform)
                                 THEN Pending ELSE NoSub]])

\* The response of GET /api/strategies arrives.  StrategyHealth awaits the
\* health response too before it fans out (see HealthFanOut).
OnStrategies(c, ok) ==
  IF ~ok THEN [c EXCEPT !.strategies = "fail", !.state = "rejected"]
  ELSE IF c.fn = "fetchStrategySignals" THEN [c EXCEPT !.strategies = "ok"]
  ELSE FanOut([c EXCEPT !.strategies = "ok"])

\* What the sub-request of strategy s answers with, as the fan-out keeps it.
SubPayload(fn, s) ==
  IF fn = "fetchStrategySignals" THEN ServerSignals(s.name)
  ELSE IF fn = "fetchStrategyDocs" THEN <<ServerDocs(s.name)>>
  ELSE TagAll(ServerTrades(s.name, OpenOnly(fn)), s)

SubFailedUncaught(fn) == [st |-> "fail", recs |-> <<>>]

\* A failed sub-request: StrategyHealth alone catches it and puts
\* { signals: [] } in its place.
SubFailed(fn) ==
  IF fn = "fetchStrategySignals"
    THEN [st |-> "caught", recs |-> <<>>]
    ELSE [st |-> "fail", recs |-> <<>>]

\* The response of the sub-request of strategy i arrives.
OnSub(c, i, ok) ==
  LET s == ServerStrategies[i]
      r == IF ok THEN [st |-> "ok", recs |-> SubPayload(c.fn, s)]
                 ELSE SubFailed(c.fn)
  IN Settle([c EXCEPT !.subs[i] = r])

(***************************************************************************)
(* StrategyHealth: the health evaluator.  Money and percentages are held   *)
(* in hundredths (maxDrawdown 501 is 5.01 %, totalPnl -50001 is -500.01),  *)
(* times in milliseconds.                                                  *)
(***************************************************************************)
MaxSignals == 2

SILENT_THRESHOLD_MIN == 60

MsPerMinute == 60 * 1000

\* Math.round of a / b for a >= 0, b > 0
RoundDiv(a, b) == (2 * a + b) \div (2 * b)

\* n.toFixed(1) of a value in hundredths, as tenths
ToFixed1(h) == IF h >= 0 THEN RoundDiv(h, 10) ELSE 0 - RoundDiv(0 - h, 10)

\* n.toFixed(0) of a value in hundredths, as units
ToFixed0(h) == IF h >= 0 THEN RoundDiv(h, 100) ELSE 0 - RoundDiv(0 - h, 100)

Alert(level, text, arg) == [level |-> level, text |-> text, arg |-> arg]

SilentAlertsInclusive(strategy, signals, now) ==
  IF strategy.enabled /\ Len(signals) > 0
    THEN LET lastMs == now - signals[1].timestamp
             mins   == IF lastMs >= 0 THEN RoundDiv(lastMs, MsPerMinute) ELSE 0
         IN IF lastMs >= SILENT_THRESHOLD_MIN * 2 * MsPerMinute
              THEN <<Alert("crit", "No signals for {}m - strategy may be down", mins)>>
            ELSE IF lastMs >= SILENT_THRESHOLD_MIN * MsPerMinute
              THEN <<Alert("warn", "No signals for {}m", mins)>>
            ELSE <<>>
    ELSE <<>>

\* Silent strategy check: `lastMins > 120` crit, else `lastMins > 60` warn,
\* with lastMins = (Date.now() - signals[0].timestamp) / 60_000.
SilentAlerts(strategy, signals, now) ==
  IF strategy.enabled /\ Len(signals) > 0
    THEN LET lastMs == now - signals[1].timestamp
             mins   == IF lastMs >= 0 THEN RoundDiv(lastMs, MsPerMinute) ELSE 0
         IN IF lastMs > SILENT_THRESHOLD_MIN * 2 * MsPerMinute
              THEN <<Alert("crit", "No signals for {}m - strategy may be down", mins)>>
            ELSE IF lastMs > SILENT_THRESHOLD_MIN * MsPerMinute
              THEN <<Alert("warn", "No signals for {}m", mins)>>
            ELSE <<>>
    ELSE <<>>

NoSignalAlerts(strategy, signals) ==
  IF strategy.enabled /\ Len(signals) = 0
    THEN <<Alert("warn", "No signals recorded yet", 0)>>
    ELSE <<>>

DrawdownAlertsInclusive(strategy) ==
  IF strategy.maxDrawdown >= 500
    THEN <<Alert("crit", "Max drawdown {}% exceeds 5% limit", ToFixed1(strategy.maxDrawdown))>>
  ELSE IF strategy.maxDrawdown >= 300
    THEN <<Alert("warn", "Drawdown at {}%", ToFixed1(strategy.maxDrawdown))>>
  ELSE <<>>

\* Drawdown alert: `maxDrawdown > 5` crit, else `maxDrawdown > 3` warn.
DrawdownAlerts(strategy) ==
  IF strategy.maxDrawdown > 500
    THEN <<Alert("crit", "Max drawdown {}% exceeds 5% limit", ToFixed1(strategy.maxDrawdown))>>
  ELSE IF strategy.maxDrawdown > 300
    THEN <<Alert("warn", "Drawdown at {}%", ToFixed1(strategy.maxDrawdown))>>
  ELSE <<>>

\* Negative P&L alert: `totalPnl < -500` crit.
LossAlerts(strategy) ==
  IF strategy.totalPnl < 0 - 50000
    THEN <<Alert("crit", "Total P&L {} below -$500 threshold", ToFixed0(strategy.totalPnl))>>
    ELSE <<>>

\* AlertSpec's variables before an evaluation
NoInput      == [given |-> FALSE]
NotEvaluated == [done |-> FALSE]

\* Spec's variables where no view is mounted
NoView ==
  /\ view = "none"
  /\ mounted = FALSE
  /\ platform = "polymarket"
  /\ effects = <<>>
  /\ loads = {}
  /\ issued = 0
  /\ ui = [loading |-> TRUE]
  /\ clock = 0

buildAlertsFirstMatch(strategy, signals, now) ==
  LET all == SilentAlerts(strategy, signals, now) \o NoSignalAlerts(strategy, signals)
               \o DrawdownAlerts(strategy) \o LossAlerts(strategy)
  IN IF all = <<>> THEN <<>> ELSE <<Head(all)>>

\* Every check pushes onto the same array, in the order of the checks.
buildAlerts(strategy, signals, now) ==
  SilentAlerts(strategy, signals, now) \o NoSignalAlerts(strategy, signals)
    \o DrawdownAlerts(strategy) \o LossAlerts(strategy)

(***************************************************************************)
(* The views: what each polls, and its polling effect.                     *)
(***************************************************************************)
\* `let active = true` ... `if (!active) return`
FlagViews ==
  {"TradeExplorer", "LivePositions", "StrategyHealth", "StrategyComparison",
   "EquityCurve", "StrategyDocs"}

\* fetch of a file, no `active` flag
FileViews == {"AlertsViewer", "LogViewer", "PaperTradingMetrics"}

Views == FlagViews \cup FileViews

HasFlag(v) == v \in FlagViews

\* setInterval(load, ...) in the effect
HasInterval(v) == v # "StrategyDocs"

\* the effect's dependency array is [platform]
Keyed(v) ==
  v \in {"TradeExplorer", "LivePositions", "StrategyDocs"} \cup FileViews

\* the fan-out a cycle of the view runs, "none" where it fetches one resource
CallOf(v) ==
  CASE v = "TradeExplorer"      -> "fetchTradesByPlatform"
    [] v = "LivePositions"      -> "fetchOpenPositionsByPlatform"
    [] v = "StrategyHealth"     -> "fetchStrategySignals"
    [] v = "StrategyComparison" -> "fetchStrategies"
    [] v = "StrategyDocs"       -> "fetchStrategyDocs"
    [] OTHER                    -> "none"

\* the request a cycle awaits next to the strategies: summary or health
HasAux(v) == v \in {"LivePositions", "StrategyHealth", "StrategyComparison"}

\* The files of the file-based views.  A line is JSON text, blank, or text
\* JSON.parse throws on.
JsonLine(src, n) == [kind |-> "json", value |-> [source |-> src, n |-> n]]
BlankLine == [kind |-> "blank", value |-> [source |-> "", n |-> 0]]
BadLine   == [kind |-> "bad", value |-> [source |-> "", n |-> 0]]
TextLine(src, n) == [kind |-> "text", value |-> [source |-> src, n |-> n]]

alertFile(p) ==
  IF p = "polymarket" THEN "/data/consensus-extremes.jsonl"
                      ELSE "/data/funding-extremes.jsonl"

logFile(p) ==
  IF p = "polymarket" THEN "/logs/contrarian-monitor.log"
                      ELSE "/logs/funding-monitor.log"

FileText(path) ==
  CASE path = "/data/consensus-extremes.jsonl" ->
         <<JsonLine(path, 1), BlankLine, BadLine, JsonLine(path, 2)>>
    [] path = "/data/funding-extremes.jsonl" ->
         <<JsonLine(path, 1), BlankLine>>
    [] path = "/logs/contrarian-monitor.log" ->
         <<TextLine(path, 1), BlankLine, TextLine(path, 2)>>
    [] path = "/logs/funding-monitor.log" ->
         <<TextLine(path, 1)>>
    [] OTHER -> <<>>

\* the keys of /data/metrics.json, in file order
MetricsKeys ==
  <<"polymarket_pure", "hyperliquid_funding", "polymarket_strength",
    "hyperliquid_oi">>

\* a line holding the JSON text null, 0, false or ""
FalsyLine == [kind |-> "falsy", value |-> [source |-> "", n |-> 0]]

NotBlank(line) == line.kind # "blank"
\* JSON.parse returns, and what it returns passes .filter(Boolean)
Parses(line)   == line.kind = "json"
ValueOf(lines) == [k \in DOMAIN lines |-> lines[k].value]

\* text.split('\n').filter(line => line.trim())
SplitLines(text) == SelectSeq(text, NotBlank)

\* ... .map(JSON.parse or null).filter(Boolean)
ParseJsonl(text) == ValueOf(SelectSeq(SplitLines(text), Parses))

\* for (const [key, val] of Object.entries(data)) if (key.startsWith(platform))
FilterMetrics(keys, p) ==
  LET Mine(key) == NamePrefix(key) = p IN SelectSeq(keys, Mine)

\* The component state.
Null == [null |-> TRUE]
NoError == "null"
NoUpdate == [set |-> FALSE]
UpdatedAt(ms) == [set |-> TRUE, at |-> ms]

InitialUi ==
  [data |-> <<>>, aux |-> Null, loading |-> TRUE, error |-> NoError,
   lastUpdate |-> NoUpdate, expanded |-> {}]

\* The readings of the clock: the instant of the newest signal the server
\* holds, and 61 minutes later.
Instants == {1000 * MsPerMinute, 1061 * MsPerMinute}

\* One run of the polling effect: the platform its closures captured, its
\* `active` variable (a view without the flag never clears it) and whether
\* its interval is still set.
RunEffect(v, p) == [platform |-> p, active |-> TRUE, timer |-> HasInterval(v)]

CleanupKeepsTimer(v, e) ==
  [e EXCEPT !.active = IF HasFlag(v) THEN FALSE ELSE @]

\* return () => { active = false; clearInterval(interval) }
Cleanup(v, e) ==
  [e EXCEPT !.active = IF HasFlag(v) THEN FALSE ELSE @, !.timer = FALSE]

\* One cycle (`load()`) right after its first requests were issued.
NewLoad(v, id, e, p) ==
  [id |-> id, eff |-> e, platform |-> p,
   req |-> IF CallOf(v) = "none" THEN "pending" ELSE "none",
   aux |-> IF HasAux(v) THEN "pending" ELSE "none",
   c   |-> IF CallOf(v) = "none" THEN IdleCall ELSE StartCall(CallOf(v), p)]

\* StrategyHealth: `await Promise.all([fetchStrategies(), fetchHealth()])`,
\* and only then the signals of every strategy.
HealthFanOut(l) ==
  IF /\ l.c.fn = "fetchStrategySignals"
     /\ l.c.strategies = "ok"
     /\ l.aux = "ok"
     /\ \A i \in StrategyIds : l.c.subs[i].st = "none"
    THEN [l EXCEPT !.c = FanOut(l.c)]
    ELSE l

\* `if (!response.ok)` handled in place: AlertsViewer, PaperTradingMetrics
ClearsOnNotOk(v) == v \in {"AlertsViewer", "PaperTradingMetrics"}

\* Whether the cycle's awaits are over, and how.
LoadState(v, l) ==
  IF \/ l.req = "fail"
     \/ (l.req = "notok" /\ ~ClearsOnNotOk(v))
     \/ l.aux = "fail"
     \/ l.c.state = "rejected"
    THEN "rejected"
  ELSE IF /\ l.req \in {"none", "ok", "notok"}
          /\ l.aux \in {"none", "ok"}
          /\ l.c.state \in {"idle", "fulfilled"}
    THEN "fulfilled"
  ELSE "pending"

\* err.message of the rejection
ErrorOf(v, l) ==
  IF l.req = "fail" THEN "Failed to fetch"
  ELSE IF l.req = "notok"
    THEN (IF v = "LogViewer" THEN "Failed to fetch logs" ELSE "API /api/equity-curve")
  ELSE IF l.c.strategies = "fail" THEN "API /api/strategies"
  ELSE IF l.aux = "fail"
    THEN (IF v = "StrategyHealth" THEN "API /api/health" ELSE "API /api/summary")
  ELSE "API /api/strategies/:name"

computeSignalsPerHourUnguarded(signals) ==
  IF Len(signals) < 2 THEN [num |-> 0, den |-> 1]
  ELSE [num |-> Len(signals) * 60 * MsPerMinute,
        den |-> signals[1].timestamp - signals[Len(signals)].timestamp]

\* signals.length / ((newest - oldest) / 3_600_000), as a fraction
computeSignalsPerHour(signals) ==
  IF Len(signals) < 2 THEN [num |-> 0, den |-> 1]
  ELSE LET spanMs == signals[1].timestamp - signals[Len(signals)].timestamp
       IN IF spanMs <= 0 THEN [num |-> 0, den |-> 1]
          ELSE [num |-> Len(signals) * 60 * MsPerMinute, den |-> spanMs]

\* StrategyHealth: `built`, strategy i paired with signalResults[i]
Built(l, ms) ==
  [i \in StrategyIds |->
     LET s       == ServerStrategies[i]
         signals == l.c.subs[i].recs
     IN [strategy       |-> s,
         signals        |-> signals,
         lastSignalTime |-> IF Len(signals) > 0
                              THEN [null |-> FALSE, at |-> signals[1].timestamp]
                              ELSE [null |-> TRUE, at |-> 0],
         signalsPerHour |-> computeSignalsPerHour(signals),
         alerts         |-> buildAlerts(s, signals, ms)]]

\* What a cycle whose awaits all succeeded hands to the data setter.
DataOf(v, l, ms) ==
  CASE v \in {"TradeExplorer", "LivePositions", "StrategyDocs"} -> l.c.value
    [] v = "StrategyHealth"      -> Built(l, ms)
    [] v = "StrategyComparison"  -> ServerStrategies
    [] v = "EquityCurve"         -> ServerEquity
    [] v = "AlertsViewer" ->
         IF l.req = "notok" THEN <<>> ELSE ParseJsonl(FileText(alertFile(l.platform)))
    [] v = "LogViewer"           -> ValueOf(SplitLines(FileText(logFile(l.platform))))
    [] v = "PaperTradingMetrics" ->
         IF l.req = "notok" THEN <<>> ELSE FilterMetrics(MetricsKeys, l.platform)

\* setHealth(h) of StrategyHealth, setSummary(sum) of LivePositions
AuxOf(v) ==
  [null |-> FALSE,
   value |-> IF v = "StrategyHealth" THEN ServerHealth ELSE ServerSummary]

\* setLastUpdate(new Date().toLocaleTimeString())
SetsLastUpdate(v, l) ==
  \/ v \in FlagViews
  \/ (v = "PaperTradingMetrics" /\ l.req = "ok")

CommitKeepsError(v, l, u, ms) ==
  LET data == DataOf(v, l, ms)
  IN [u EXCEPT !.data = data,
               !.aux = IF HasAux(v) THEN AuxOf(v) ELSE @,
               !.lastUpdate = IF SetsLastUpdate(v, l) THEN UpdatedAt(ms) ELSE @,
               !.loading = FALSE,
               !.expanded = IF v = "StrategyDocs" /\ Len(data) = 1
                              THEN {data[1].name} ELSE @]

\* The try block past its awaits, and the finally block.
Commit(v, l, u, ms) ==
  LET data == DataOf(v, l, ms)
  IN [u EXCEPT !.data = data,
               !.aux = IF HasAux(v) THEN AuxOf(v) ELSE @,
               !.lastUpdate = IF SetsLastUpdate(v, l) THEN UpdatedAt(ms) ELSE @,
               !.error = NoError,
               !.loading = FALSE,
               !.expanded = IF v = "StrategyDocs" /\ Len(data) = 1
                              THEN {data[1].name} ELSE @]

FailClearsData(v, l, u) ==
  [u EXCEPT !.data = <<>>, !.error = ErrorOf(v, l), !.loading = FALSE]

\* The catch block, and the finally block.
Fail(v, l, u) == [u EXCEPT !.error = ErrorOf(v, l), !.loading = FALSE]

FinishNewestOnly(v, l, u, active, ms) ==
  IF ~active \/ l.id < issued THEN u
  ELSE IF LoadState(v, l) = "fulfilled" THEN Commit(v, l, u, ms)
  ELSE Fail(v, l, u)

FinishUnguarded(v, l, u, active, ms) ==
  IF LoadState(v, l) = "fulfilled" THEN Commit(v, l, u, ms) ELSE Fail(v, l, u)

\* The rest of `load` once its awaits are over: nothing is written when the
\* effect's `active` is false.
Finish(v, l, u, active, ms) ==
  IF ~active THEN u
  ELSE IF LoadState(v, l) = "fulfilled" THEN Commit(v, l, u, ms)
  ELSE Fail(v, l, u)

(***************************************************************************)
(* AggSpec: one aggregation call                                           *)
(***************************************************************************)
AggInit ==
  /\ srv \in [1..NumStrategies -> ExchangeValues]
  /\ call = IdleCall
  /\ hin = NoInput
  /\ hout = NotEvaluated
  /\ NoView

AggInvoke ==
  /\ call.state = "idle"
  /\ \E fn \in AggFns, p \in Platforms :
       call' = StartCall(fn, IF ByPlatform(fn) THEN p ELSE "none")
  /\ UNCHANGED <<srv, hin, hout, pollVars>>

AggStrategiesRespond ==
  /\ call.strategies = "pending"
  /\ \E ok \in BOOLEAN : call' = OnStrategies(call, ok)
  /\ UNCHANGED <<srv, hin, hout, pollVars>>

AggSubRespond ==
  /\ \E i \in StrategyIds, ok \in BOOLEAN :
       /\ call.subs[i].st = "pending"
       /\ call' = OnSub(call, i, ok)
  /\ UNCHANGED <<srv, hin, hout, pollVars>>

AggNext == AggInvoke \/ AggStrategiesRespond \/ AggSubRespond

AggSpec == AggInit /\ [][AggNext]_vars

(***************************************************************************)
(* Properties of the aggregation (AggSpec)                                 *)
(***************************************************************************)
Issued  == {i \in StrategyIds : call.subs[i].st # "none"}
Failed  == {i \in StrategyIds : call.subs[i].st = "fail"}
Arrived == {i \in StrategyIds : call.subs[i].st = "ok"}

\* the records the trades endpoint of strategy i handed out, as <<i, k>>
Handed(I) ==
  UNION {{<<i, k>> : k \in DOMAIN ServerTrades(StrategyNames[i], OpenOnly(call.fn))}
           : i \in I}

CopiesOf(ik) ==
  LET raw == ServerTrades(StrategyNames[ik[1]], OpenOnly(call.fn))[ik[2]]
  IN {j \in DOMAIN call.value :
        /\ call.value[j].strategy = StrategyNames[ik[1]]
        /\ call.value[j].id = raw.id
        /\ call.value[j].status = raw.status
        /\ call.value[j].metadata = raw.metadata}

MergedExactly(I) ==
  /\ Len(call.value) = Cardinality(Handed(I))
  /\ \A ik \in Handed(I) : Cardinality(CopiesOf(ik)) = 1

\* C4: Trade aggregation tolerates partial failure: when the trades
\* sub-request of exactly one strategy has failed and those of all the other
\* strategies have succeeded, the call is fulfilled (nothing is thrown to the
\* caller) and its list is the merged records of every strategy but that one.
C4_PartialFailureTolerated ==
  (/\ call.strategies = "ok"
   /\ Cardinality(Failed) = 1
   /\ Arrived # {}
   /\ Issued \ Failed = Arrived)
  => (call.state = "fulfilled" /\ MergedExactly(Arrived))

\* C6: When every sub-request succeeds, the list an aggregation returns
\* holds exactly the records the per-strategy sub-requests returned, each
\* once, and each record's `strategy` is the name of the strategy whose
\* sub-request returned it, in whatever order the sub-requests completed.
C6_MergeExactAndTagged ==
  (call.strategies = "ok" /\ Issued = Arrived)
  => /\ call.state = "fulfilled"
     /\ MergedExactly(Arrived)
     /\ \A j \in DOMAIN call.value :
          call.value[j].strategy = call.value[j].metadata.source

C6_Witness ==
  /\ call.state = "fulfilled"
  /\ Cardinality(Arrived) >= 2
  /\ Len(call.value) >= 3
  /\ \E j \in DOMAIN call.value : call.value[j].strategy # StrategyNames[1]

\* the strategies whose `exchanges` holds platform p
Members(p) ==
  {i \in StrategyIds :
     srv[i].defined /\ \E k \in DOMAIN srv[i].items : srv[i].items[k] = p}

\* C7: A by-platform aggregation issues a trades sub-request for exactly
\* the strategies whose `exchanges` contains the platform (whatever their
\* names; none for a strategy without `exchanges`), and tags no returned
\* record with a strategy outside the platform.
C7_PlatformByExchanges ==
  (ByPlatform(call.fn) /\ call.strategies = "ok")
  => /\ fetchStrategiesByPlatform(call.platform) = Members(call.platform)
     /\ Issued = Members(call.platform)
     /\ \A j \in DOMAIN call.value :
          \E i \in Members(call.platform) :
            call.value[j].strategy = StrategyNames[i]

C7_Witness ==
  /\ ByPlatform(call.fn)
  /\ call.state = "fulfilled"
  /\ Len(call.value) >= 1
  /\ \E i \in StrategyIds \ Issued : NamePrefix(StrategyNames[i]) = call.platform
  /\ \E i \in Issued : NamePrefix(StrategyNames[i]) # call.platform
  /\ \E i \in StrategyIds : ~srv[i].defined

(***************************************************************************)
(* AlertSpec: buildAlerts on bounded inputs                                *)
(***************************************************************************)
DrawdownValues == {0, 300, 301, 500, 501, 620}
PnlValues      == {0 - 50001, 0 - 50000, 0 - 12000, 0}
\* how long before `now` the newest signal was recorded (negative: a
\* timestamp in the future)
AgeValues ==
  {0 - 1, 0, 60 * MsPerMinute, 60 * MsPerMinute + 1,
   120 * MsPerMinute, 120 * MsPerMinute + 1}
SignalTimes == {1000 * MsPerMinute, 1060 * MsPerMinute}
NowValues   == {t + a : t \in SignalTimes, a \in AgeValues}

SeqsUpTo(S, n) == UNION {[1..k -> S] : k \in 0..n}

HealthStrategies ==
  [enabled : BOOLEAN, maxDrawdown : DrawdownValues, totalPnl : PnlValues]

SignalLists ==
  {[k \in DOMAIN ts |-> [timestamp |-> ts[k]]] : ts \in SeqsUpTo(SignalTimes, MaxSignals)}

AlertInit ==
  /\ srv = [i \in 1..NumStrategies |-> NoExchanges]
  /\ call = IdleCall
  /\ hin \in [given : {TRUE}, strategy : HealthStrategies, signals : SignalLists]
  /\ hout = NotEvaluated
  /\ NoView

\* One evaluation, Date.now() being whatever the clock reads.
AlertEvaluate ==
  /\ ~hout.done
  /\ \E now \in NowValues :
       hout' = [done |-> TRUE, now |-> now,
                alerts |-> buildAlerts(hin.strategy, hin.signals, now)]
  /\ UNCHANGED <<srv, call, hin, pollVars>>

AlertNext == AlertEvaluate

AlertSpec == AlertInit /\ [][AlertNext]_vars

(***************************************************************************)
(* HealthFnSpec: timeAgo and computeSignalsPerHour on bounded inputs       *)
(***************************************************************************)
\* The text timeAgo returns: a template and the numbers put into it.
Ago(text, a, b) == [text |-> text, a |-> a, b |-> b]

\* timeAgo(iso), Date.now() reading `now`
timeAgo(iso, now) ==
  LET ms == now - iso
  IN IF ms < 0 THEN Ago("just now", 0, 0)
     ELSE LET secs == RoundDiv(ms, 1000)
          IN IF secs < 60 THEN Ago("{}s ago", secs, 0)
             ELSE LET mins == RoundDiv(secs, 60)
                  IN IF mins < 60 THEN Ago("{}m ago", mins, 0)
                     ELSE LET hrs     == mins \div 60
                              remMins == mins % 60
                          IN IF remMins > 0 THEN Ago("{}h {}m ago", hrs, remMins)
                                            ELSE Ago("{}h ago", hrs, 0)

\* The input is a timestamp for timeAgo, or a list of at most MaxSignals
\* signals, in any order of their timestamps, for computeSignalsPerHour.
HealthFnInit ==
  LET IsoValues == {t * MsPerMinute : t \in {940, 1000, 1060, 1120}}
      RateLists ==
        {[k \in DOMAIN ts |-> [timestamp |-> ts[k]]] :
           ts \in SeqsUpTo(IsoValues, MaxSignals)}
  IN /\ srv = [i \in 1..NumStrategies |-> NoExchanges]
     /\ call = IdleCall
     /\ \/ hin \in [given : {TRUE}, fn : {"timeAgo"}, iso : IsoValues]
        \/ hin \in [given : {TRUE}, fn : {"computeSignalsPerHour"},
                     signals : RateLists]
     /\ hout = NotEvaluated
     /\ NoView

\* One call of timeAgo; Date.now() reads the timestamp plus one of these
\* milliseconds, chosen around each boundary of the function.
TimeAgoEvaluate ==
  /\ ~hout.done
  /\ hin.fn = "timeAgo"
  /\ \E d \in {0 - 1000, 0 - 1, 0, 1, 499, 500, 59499, 59500, 59999, 60000,
              90000, 3569999, 3570000, 3599999, 3600000, 3629999, 3630000,
              7200000, 7260000} :
       hout' = [done |-> TRUE, now |-> hin.iso + d,
                value |-> timeAgo(hin.iso, hin.iso + d)]
  /\ UNCHANGED <<srv, call, hin, pollVars>>

PerHourEvaluate ==
  /\ ~hout.done
  /\ hin.fn = "computeSignalsPerHour"
  /\ hout' = [done |-> TRUE, now |-> 0,
              value |-> computeSignalsPerHour(hin.signals)]
  /\ UNCHANGED <<srv, call, hin, pollVars>>

HealthFnSpec == HealthFnInit /\ [][TimeAgoEvaluate \/ PerHourEvaluate]_vars

(***************************************************************************)
(* EquitySpec: the chart rows of EquityCurve on bounded series.  A         *)
(* drawdown is held as the fraction num / den of a percentage.             *)
(***************************************************************************)
MaxPoints == 3

allRowsStalePeak(raw) ==
  LET peak[k \in 0..Len(raw)] ==
        IF k = 0 THEN [inf |-> TRUE, v |-> 0]
        ELSE IF peak[k - 1].inf \/ raw[k].totalEquity > peak[k - 1].v
          THEN [inf |-> FALSE, v |-> raw[k].totalEquity]
          ELSE peak[k - 1]
  IN [k \in DOMAIN raw |->
        [ts |-> raw[k].timestamp, totalEquity |-> raw[k].totalEquity,
         drawdown |->
           IF ~peak[k - 1].inf /\ peak[k - 1].v > 0
             THEN [num |-> (raw[k].totalEquity - peak[k - 1].v) * 100,
                   den |-> peak[k - 1].v]
             ELSE [num |-> 0, den |-> 1]]]

\* let peak = -Infinity; raw.map(p => { if (p.totalEquity > peak) peak = ...;
\* const dd = peak > 0 ? ((p.totalEquity - peak) / peak) * 100 : 0 ... })
allRows(raw) ==
  LET peak[k \in 0..Len(raw)] ==
        IF k = 0 THEN [inf |-> TRUE, v |-> 0]
        ELSE IF peak[k - 1].inf \/ raw[k].totalEquity > peak[k - 1].v
          THEN [inf |-> FALSE, v |-> raw[k].totalEquity]
          ELSE peak[k - 1]
  IN [k \in DOMAIN raw |->
        [ts |-> raw[k].timestamp, totalEquity |-> raw[k].totalEquity,
         drawdown |->
           IF peak[k].v > 0
             THEN [num |-> (raw[k].totalEquity - peak[k].v) * 100,
                   den |-> peak[k].v]
             ELSE [num |-> 0, den |-> 1]]]

\* The series the server answers: at most MaxPoints points, the equity of
\* each negative, zero or positive.
EquityInit ==
  /\ srv = [i \in 1..NumStrategies |-> NoExchanges]
  /\ call = IdleCall
  /\ \E eq \in SeqsUpTo({0 - 50, 0, 100, 150}, MaxPoints) :
       hin = [given |-> TRUE,
              raw |-> [k \in DOMAIN eq |-> [timestamp |-> k, totalEquity |-> eq[k]]]]
  /\ hout = NotEvaluated
  /\ NoView

\* The useMemo of allRows runs on the committed series.
RowsEvaluate ==
  /\ ~hout.done
  /\ hout' = [done |-> TRUE, rows |-> allRows(hin.raw)]
  /\ UNCHANGED <<srv, call, hin, pollVars>>

EquitySpec == EquityInit /\ [][RowsEvaluate]_vars

(***************************************************************************)
(* TableSpec: a table view after a cycle has committed its records: the    *)
(* selections of the user (sort, filters, expansion) and the hold-time     *)
(* tick.  `hin` holds the committed records, `ui` the selections.          *)
(***************************************************************************)
MaxTicks == 2

DayMs == 86400000

\* The useState initial values of the selections.
TableUi(v) ==
  CASE v = "TradeExplorer" ->
         [sortKey |-> "entryTime", sortDir |-> "desc", strategyFilter |-> "all",
          assetFilter |-> "all", pnlFilter |-> "all", dateFrom |-> "",
          dateTo |-> "", expandedId |-> Null]
    [] v = "StrategyComparison" -> [sortKey |-> "totalPnl", sortDir |-> "desc"]
    [] OTHER -> [tick |-> 0]

\* COLUMNS: the keys a header click can select.
SortKeys(v) ==
  IF v = "TradeExplorer"
    THEN {"entryTime", "strategy", "asset", "direction", "realisedPnl", "hold"}
  ELSE IF v = "StrategyComparison"
    THEN {"name", "totalTrades", "winRate", "avgWin", "avgLoss",
          "profitFactor", "sharpeRatio", "totalPnl"}
  ELSE {}

\* key === 'entryTime' ? 'desc' : 'asc';  key === 'name' ? 'asc' : 'desc'
DefaultDir(v, key) ==
  IF v = "TradeExplorer"
    THEN (IF key = "entryTime" THEN "desc" ELSE "asc")
    ELSE (IF key = "name" THEN "asc" ELSE "desc")

handleSortKeepsDir(v, u, key) ==
  LET w == IF u.sortKey = key
             THEN [u EXCEPT !.sortDir = IF @ = "asc" THEN "desc" ELSE "asc"]
             ELSE [u EXCEPT !.sortKey = key]
  IN IF v = "TradeExplorer" THEN [w EXCEPT !.expandedId = Null] ELSE w

\* handleSort(key); TradeExplorer also closes the expanded row.  (The
\* updater given to setSortKey is taken to run once per click.)
handleSort(v, u, key) ==
  LET w == IF u.sortKey = key
             THEN [u EXCEPT !.sortDir = IF @ = "asc" THEN "desc" ELSE "asc"]
             ELSE [u EXCEPT !.sortKey = key, !.sortDir = DefaultDir(v, key)]
  IN IF v = "TradeExplorer" THEN [w EXCEPT !.expandedId = Null] ELSE w

\* A trade as the table views read it; exitTime is null while it is open.
Trade(id, strategy, asset, direction, pnl, entry, exit) ==
  [id |-> id, strategy |-> strategy, asset |-> asset, direction |-> direction,
   realisedPnl |-> pnl, entryTime |-> entry,
   exitTime |-> IF exit = 0 THEN [null |-> TRUE, at |-> 0]
                            ELSE [null |-> FALSE, at |-> exit],
   status |-> IF exit = 0 THEN "OPEN" ELSE "CLOSED"]

\* The trades the server may hold: entered at the first instant of
\* 1970-01-02, at its last millisecond, and at the first instant of
\* 1970-01-03 (still open).  Ids are unique within a strategy only.
TradePool ==
  << Trade(1, "polymarket_pure", "BTC", "LONG", 500, DayMs, DayMs + 3600000),
     Trade(2, "polymarket_pure", "ETH", "SHORT", 0 - 300, 2 * DayMs - 1, 2 * DayMs + 59),
     Trade(1, "polymarket_strength", "BTC", "LONG", 0, 2 * DayMs, 0) >>

\* What a committed cycle left in the state of the view: the trades of the
\* pool with index in S, or the first strategies of the server.
Committed(v, S) ==
  LET Held(t) == \E i \in S : t = TradePool[i]
      Open(t) == t.exitTime.null
      all     == SelectSeq(TradePool, Held)
  IN IF v = "LivePositions" THEN SelectSeq(all, Open)
     ELSE IF v = "StrategyComparison" THEN [i \in S |-> StrategyRec(i)]
     ELSE all

\* TradeExplorer: holdMs(t)
holdMs(t) ==
  IF t.exitTime.null THEN 0 ELSE t.exitTime.at - t.entryTime

\* LivePositions: the `ms` of fmtHold(entryTime)
liveHoldMs(t, now) == now - t.entryTime

\* The filter states, in the order `rows` applies them.
FilterNames ==
  <<"strategyFilter", "assetFilter", "pnlFilter", "dateFrom", "dateTo">>

\* The values a filter control can be set to.
FilterOptions(f, trades) ==
  CASE f = "strategyFilter" ->
         {"all"} \cup {trades[k].strategy : k \in DOMAIN trades}
    [] f = "assetFilter" ->
         {"all"} \cup {trades[k].asset : k \in DOMAIN trades}
    [] f = "pnlFilter" -> {"all", "winners", "losers"}
    [] OTHER -> {"", "1970-01-02", "1970-01-03"}

\* new Date(date).getTime() of the value of a date input
DateMs(date) == IF date = "1970-01-02" THEN DayMs ELSE 2 * DayMs

passesExclusiveTo(f, u, t) ==
  CASE f = "strategyFilter" -> u.strategyFilter = "all" \/ t.strategy = u.strategyFilter
    [] f = "assetFilter" -> u.assetFilter = "all" \/ t.asset = u.assetFilter
    [] f = "pnlFilter" ->
         IF u.pnlFilter = "winners" THEN t.realisedPnl > 0
         ELSE IF u.pnlFilter = "losers" THEN t.realisedPnl < 0
         ELSE TRUE
    [] f = "dateFrom" -> u.dateFrom = "" \/ t.entryTime >= DateMs(u.dateFrom)
    [] f = "dateTo" -> u.dateTo = "" \/ t.entryTime < DateMs(u.dateTo)

\* Whether trade t is kept by filter f; a filter that is not set keeps all.
passes(f, u, t) ==
  CASE f = "strategyFilter" -> u.strategyFilter = "all" \/ t.strategy = u.strategyFilter
    [] f = "assetFilter" -> u.assetFilter = "all" \/ t.asset = u.assetFilter
    [] f = "pnlFilter" ->
         IF u.pnlFilter = "winners" THEN t.realisedPnl > 0
         ELSE IF u.pnlFilter = "losers" THEN t.realisedPnl < 0
         ELSE TRUE
    [] f = "dateFrom" -> u.dateFrom = "" \/ t.entryTime >= DateMs(u.dateFrom)
    [] f = "dateTo" -> u.dateTo = "" \/ t.entryTime < DateMs(u.dateTo) + DayMs

\* filtered = filtered.filter(...) for the filters `order` names, in turn
RECURSIVE filterBy(_, _, _)
filterBy(order, u, trades) ==
  IF order = <<>> THEN trades
  ELSE LET Keep(t) == passes(Head(order), u, t)
       IN filterBy(Tail(order), u, SelectSeq(trades, Keep))

filteredAssetFromAll(u, trades) ==
  LET Keep(t) == passes("assetFilter", u, t)
  IN filterBy(<<"pnlFilter", "dateFrom", "dateTo">>, u,
              IF u.assetFilter = "all" THEN filterBy(<<"strategyFilter">>, u, trades)
              ELSE SelectSeq(trades, Keep))

\* `filtered` of rows, before the sort
filtered(u, trades) == filterBy(FilterNames, u, trades)

\* rows.length === 0 ? <div className="te-empty"> : <table>
renderRows(n) == IF n = 0 THEN "te-empty" ELSE "te-table"

TableInit ==
  /\ srv = [i \in 1..NumStrategies |-> NoExchanges]
  /\ call = IdleCall
  /\ hout = NotEvaluated
  /\ view \in {"TradeExplorer", "StrategyComparison", "LivePositions"}
  /\ \E S \in IF view = "StrategyComparison"
               THEN {1..n : n \in 0..NumStrategies}
               ELSE SUBSET DOMAIN TradePool :
       hin = [given |-> TRUE, rows |-> Committed(view, S)]
  /\ mounted = TRUE
  /\ platform = "polymarket"
  /\ effects = <<>>
  /\ loads = {}
  /\ issued = 0
  /\ ui = TableUi(view)
  /\ clock = 3 * DayMs

\* LivePositions: setInterval(() => setTick(n => n + 1), 1000) fires; the
\* effect sets the interval only while positions are shown.
HoldTick ==
  /\ view = "LivePositions"
  /\ Len(hin.rows) > 0
  /\ ui.tick < MaxTicks
  /\ ui' = [ui EXCEPT !.tick = @ + 1]
  /\ clock' = clock + 1000
  /\ UNCHANGED <<srv, pureVars, view, mounted, platform, effects, loads, issued>>

\* A click on a column header.
HandleSort ==
  /\ \E key \in SortKeys(view) : ui' = handleSort(view, ui, key)
  /\ UNCHANGED <<srv, pureVars, view, mounted, platform, effects, loads, issued, clock>>

\* One of the five filter controls changes; each handler also closes the
\* expanded row.  The two selects offer 'all' and the keys of the committed
\* trades.
SetFilter ==
  /\ view = "TradeExplorer"
  /\ \E i \in DOMAIN FilterNames :
       \E val \in FilterOptions(FilterNames[i], hin.rows) :
         ui' = [ui EXCEPT ![FilterNames[i]] = val, !.expandedId = Null]
  /\ UNCHANGED <<srv, pureVars, view, mounted, platform, effects, loads, issued, clock>>

TableSpec == TableInit /\ [][HoldTick \/ HandleSort \/ SetFilter]_vars

(***************************************************************************)
(* Spec: one mounted view                                                  *)
(***************************************************************************)
\* What /api/strategies reports while a view polls: the 1st strategy
\* trades on both platforms, the 2nd, whose name starts with
\* "hyperliquid", on polymarket alone.
PolledExchanges ==
  << [defined |-> TRUE, items |-> <<"polymarket", "hyperliquid">>],
     [defined |-> TRUE, items |-> <<"polymarket">>] >>

Init ==
  /\ srv = PolledExchanges
  /\ call = IdleCall
  /\ hin = NoInput
  /\ hout = NotEvaluated
  /\ view \in Views
  /\ mounted = TRUE
  /\ platform = "polymarket"   \* the route "/" leads to /polymarket
  /\ effects = <<RunEffect(view, platform)>>
  /\ loads = {NewLoad(view, 1, 1, platform)}
  /\ issued = 1
  /\ ui = InitialUi
  /\ clock = 1000 * MsPerMinute

CanIssue == issued < MaxLoads /\ Cardinality(loads) < MaxInFlight

\* `load()`: a cycle of effect run e starts
Issue(e) ==
  /\ issued' = issued + 1
  /\ loads' = loads \cup {NewLoad(view, issued + 1, e, effects'[e].platform)}

\* Whether the setters a cycle calls still write: its effect run's `active`
\* is set, and the component state is there to be written (React drops a
\* state update of a component that has unmounted).
Writes(l) == mounted /\ effects[l.eff].active

\* The load l has become l2 by the arrival of a response.
Arrive(l, l2) ==
  IF LoadState(view, l2) = "pending"
    THEN /\ loads' = (loads \ {l}) \cup {l2}
         /\ ui' = ui
    ELSE /\ loads' = loads \ {l}
         /\ ui' = Finish(view, l2, ui, Writes(l2), clock)

TickSerialized ==
  /\ CanIssue
  /\ loads = {}
  /\ \E e \in DOMAIN effects :
       /\ effects[e].timer
       /\ effects' = effects
       /\ Issue(e)
  /\ UNCHANGED <<srv, pureVars, view, mounted, platform, ui, clock>>

\* The interval of an effect run fires.
Tick ==
  /\ CanIssue
  /\ \E e \in DOMAIN effects :
       /\ effects[e].timer
       /\ effects' = effects
       /\ Issue(e)
  /\ UNCHANGED <<srv, pureVars, view, mounted, platform, ui, clock>>

PlatformChangeResets ==
  /\ mounted
  /\ Keyed(view)
  /\ CanIssue
  /\ \E p \in Platforms \ {platform} :
       /\ platform' = p
       /\ effects' =
            Append([effects EXCEPT ![Len(effects)] = Cleanup(view, @)],
                   RunEffect(view, p))
       /\ Issue(Len(effects) + 1)
  /\ ui' = [ui EXCEPT !.data = <<>>, !.loading = TRUE]
  /\ UNCHANGED <<srv, pureVars, view, mounted, clock>>

\* The platform prop of a view keyed on it changes: the view cleans its
\* effect up and runs it again, which starts a cycle at once.  (In the other
\* views the prop is no dependency and a change of it touches no state.)
PlatformChange ==
  /\ mounted
  /\ Keyed(view)
  /\ CanIssue
  /\ \E p \in Platforms \ {platform} :
       /\ platform' = p
       /\ effects' =
            Append([effects EXCEPT ![Len(effects)] = Cleanup(view, @)],
                   RunEffect(view, p))
       /\ Issue(Len(effects) + 1)
  /\ UNCHANGED <<srv, pureVars, view, mounted, ui, clock>>

Unmount ==
  /\ mounted
  /\ mounted' = FALSE
  /\ effects' = [effects EXCEPT ![Len(effects)] = Cleanup(view, @)]
  /\ UNCHANGED <<srv, pureVars, view, platform, loads, issued, ui, clock>>

\* GET /api/strategies answers, or fails.
StrategiesRespond ==
  /\ \E l \in loads, ok \in BOOLEAN :
       /\ l.c.strategies = "pending"
       /\ Arrive(l, HealthFanOut([l EXCEPT !.c = OnStrategies(l.c, ok)]))
  /\ UNCHANGED <<srv, pureVars, view, mounted, platform, effects, issued, clock>>

\* GET /api/summary or /api/health answers, or fails.
AuxRespond ==
  /\ \E l \in loads, ok \in BOOLEAN :
       /\ l.aux = "pending"
       /\ Arrive(l, HealthFanOut([l EXCEPT !.aux = IF ok THEN "ok" ELSE "fail"]))
  /\ UNCHANGED <<srv, pureVars, view, mounted, platform, effects, issued, clock>>

\* A per-strategy sub-request answers, or fails.
SubRespond ==
  /\ \E l \in loads, i \in StrategyIds, ok \in BOOLEAN :
       /\ l.c.subs[i].st = "pending"
       /\ Arrive(l, [l EXCEPT !.c = OnSub(l.c, i, ok)])
  /\ UNCHANGED <<srv, pureVars, view, mounted, platform, effects, issued, clock>>

\* The single request of a view without fan-out answers with a success
\* status, with another status, or fails in transport.
FileRespond ==
  /\ \E l \in loads, o \in {"ok", "notok", "fail"} :
       /\ l.req = "pending"
       /\ Arrive(l, [l EXCEPT !.req = o])
  /\ UNCHANGED <<srv, pureVars, view, mounted, platform, effects, issued, clock>>

\* Time passes.
Advance ==
  /\ \E t \in Instants : t > clock /\ clock' = t
  /\ UNCHANGED <<srv, pureVars, view, mounted, platform, effects, loads, issued, ui>>

Next ==
  \/ Tick \/ PlatformChange \/ Unmount
  \/ StrategiesRespond \/ AuxRespond \/ SubRespond \/ FileRespond
  \/ Advance

Spec == Init /\ [][Next]_vars

(***************************************************************************)
(* Properties of buildAlerts (AlertSpec)                                   *)
(***************************************************************************)
IsSilence(a) ==
  a.text \in {"No signals recorded yet", "No signals for {}m",
              "No signals for {}m - strategy may be down"}
IsDrawdown(a) ==
  a.text \in {"Max drawdown {}% exceeds 5% limit", "Drawdown at {}%"}
IsLoss(a) == a.text = "Total P&L {} below -$500 threshold"

Levels(alerts) == [k \in DOMAIN alerts |-> alerts[k].level]

\* C8: A strategy with enabled = false gets no alert at all, whatever its
\* maxDrawdown, totalPnl and signals.
C8_DisabledNoAlerts ==
  (hout.done /\ ~hin.strategy.enabled) => hout.alerts = <<>>

\* C9: Silence rule for an enabled strategy, m the minutes since
\* signals[0]: no signal at all gives exactly one silence alert, warn
\* "No signals recorded yet"; otherwise m > 120 gives one crit,
\* 60 < m <= 120 one warn, m <= 60 none.  Never more than one silence alert.
C9_SilenceRule ==
  hout.done =>
    LET sil == SelectSeq(hout.alerts, IsSilence)
    IN /\ Len(sil) <= 1
       /\ hin.strategy.enabled =>
            IF Len(hin.signals) = 0
              THEN sil = <<Alert("warn", "No signals recorded yet", 0)>>
              ELSE LET ms == hout.now - hin.signals[1].timestamp
                   IN /\ ms > 120 * 60000 => Levels(sil) = <<"crit">>
                      /\ (ms > 60 * 60000 /\ ms <= 120 * 60000)
                           => Levels(sil) = <<"warn">>
                      /\ ms <= 60 * 60000 => sil = <<>>
                      /\ \A k \in DOMAIN sil : sil[k].text # "No signals recorded yet"

C9_Witness ==
  /\ hout.done
  /\ hin.strategy.enabled
  /\ Len(hin.signals) > 0
  /\ hout.now - hin.signals[1].timestamp = 120 * 60000
  /\ Levels(SelectSeq(hout.alerts, IsSilence)) = <<"warn">>

\* C10: The thresholds are strict: maxDrawdown 5.0 gives a warn drawdown
\* alert and no crit, 5.01 gives crit, 3 < maxDrawdown <= 5 gives warn,
\* maxDrawdown <= 3 gives no drawdown alert; totalPnl -500.0 gives no loss
\* alert and -500.01 a crit loss alert.
C10_StrictThresholds ==
  hout.done =>
    LET dd   == SelectSeq(hout.alerts, IsDrawdown)
        loss == SelectSeq(hout.alerts, IsLoss)
        md   == hin.strategy.maxDrawdown
        pnl  == hin.strategy.totalPnl
    IN /\ md = 500 => Levels(dd) = <<"warn">>
       /\ md = 501 => Levels(dd) = <<"crit">>
       /\ (md > 300 /\ md <= 500) => Levels(dd) = <<"warn">>
       /\ md <= 300 => dd = <<>>
       /\ pnl = 0 - 50000 => loss = <<>>
       /\ pnl = 0 - 50001 => Levels(loss) = <<"crit">>

C10_Witness ==
  /\ hout.done
  /\ hin.strategy.maxDrawdown = 500
  /\ hin.strategy.totalPnl = 0 - 50000
  /\ Levels(hout.alerts) = <<"warn">>

\* The rule an alert comes from: 1 silence, 2 drawdown, 3 loss.
RuleOf(a) == IF IsSilence(a) THEN 1 ELSE IF IsDrawdown(a) THEN 2 ELSE 3

\* C11: for an enabled strategy the alerts are those of every rule that
\* applies, in the order silence, drawdown, loss, at most one per rule and so
\* at most three; enabled with maxDrawdown 6.2, totalPnl -120 and the newest
\* signal at `now` gives the one alert crit "Max drawdown 6.2% exceeds 5% limit".
C11_AllAlertsInOrder ==
  (hout.done /\ hin.strategy.enabled) =>
    LET al   == hout.alerts
        md   == hin.strategy.maxDrawdown
        pnl  == hin.strategy.totalPnl
        silent ==
          \/ Len(hin.signals) = 0
          \/ hout.now - hin.signals[1].timestamp > SILENT_THRESHOLD_MIN * MsPerMinute
    IN /\ Len(al) <= 3
       /\ \A i, j \in DOMAIN al : i < j => RuleOf(al[i]) < RuleOf(al[j])
       /\ silent <=> \E k \in DOMAIN al : IsSilence(al[k])
       /\ md > 300 <=> \E k \in DOMAIN al : IsDrawdown(al[k])
       /\ pnl < 0 - 50000 <=> \E k \in DOMAIN al : IsLoss(al[k])
       /\ (/\ md = 620
           /\ pnl = 0 - 12000
           /\ Len(hin.signals) > 0
           /\ hout.now = hin.signals[1].timestamp)
          => al = <<Alert("crit", "Max drawdown {}% exceeds 5% limit", 62)>>

\* All three rules applied to one enabled strategy.
C11_Witness ==
  /\ hout.done
  /\ hin.strategy.enabled
  /\ Len(hin.signals) > 0
  /\ Levels(hout.alerts) = <<"warn", "crit", "crit">>
  /\ IsSilence(hout.alerts[1]) /\ IsDrawdown(hout.alerts[2]) /\ IsLoss(hout.alerts[3])

(***************************************************************************)
(* Properties of HealthFnSpec                                              *)
(***************************************************************************)
\* C12: computeSignalsPerHour returns 0 for a list of fewer than two signals
\* and for a list whose first timestamp is not later than its last; otherwise
\* it returns count / spanHours.  The result is never negative and no
\* division by zero happens, whatever the order of the list.
C12_SignalsPerHour ==
  (hout.done /\ hin.fn = "computeSignalsPerHour") =>
    LET n    == Len(hin.signals)
        span == IF n = 0 THEN 0
                ELSE hin.signals[1].timestamp - hin.signals[n].timestamp
        v    == hout.value
    IN /\ v.den > 0
       /\ v.num >= 0
       /\ (n < 2 \/ span <= 0) => v.num = 0
       /\ (n >= 2 /\ span > 0) => v = [num |-> n * 3600000, den |-> span]

\* A list in oldest-first order: the span is negative and the rate is 0.
C12_Witness ==
  /\ hout.done
  /\ hin.fn = "computeSignalsPerHour"
  /\ Len(hin.signals) >= 2
  /\ hin.signals[1].timestamp < hin.signals[Len(hin.signals)].timestamp
  /\ hout.value.num = 0

\* C13: timeAgo returns "just now" for a delta now - timestamp <= 0; for a
\* positive delta it gives seconds below 60 s, minutes below 60 min, and
\* hours with minutes otherwise, the minutes left out when they are 0.
C13_TimeAgo ==
  (hout.done /\ hin.fn = "timeAgo") =>
    LET d == hout.now - hin.iso
        v == hout.value
    IN /\ d <= 0 => v.text = "just now"
       /\ (d > 0 /\ d < 60000) => v.text = "{}s ago"
       /\ (d >= 60000 /\ d < 3600000) => v.text = "{}m ago"
       /\ d >= 3600000 => v.text \in {"{}h ago", "{}h {}m ago"}
       /\ v.text = "{}h {}m ago" => v.b > 0

(***************************************************************************)
(* Properties of EquitySpec                                                *)
(***************************************************************************)
\* The largest equity among the first k points.
RunningMax(raw, k) ==
  CHOOSE m \in {raw[j].totalEquity : j \in 1..k} :
    \A j \in 1..k : raw[j].totalEquity <= m

\* C14: every drawdown of a series is <= 0; it is exactly 0 at every point
\* whose equity equals the largest equity so far, and at every point where
\* that largest equity is not positive.
C14_DrawdownNonPositive ==
  hout.done =>
    /\ DOMAIN hout.rows = DOMAIN hin.raw
    /\ \A k \in DOMAIN hin.raw :
         LET dd == hout.rows[k].drawdown
             m  == RunningMax(hin.raw, k)
         IN /\ dd.den > 0
            /\ dd.num <= 0
            /\ hin.raw[k].totalEquity = m => dd.num = 0
            /\ m <= 0 => dd.num = 0
            /\ (m > 0 /\ hin.raw[k].totalEquity < m) => dd.num < 0

\* A series that falls below its peak and then sets a new one.
C14_Witness ==
  /\ hout.done
  /\ Len(hin.raw) = 3
  /\ hout.rows[1].drawdown.num = 0
  /\ hout.rows[2].drawdown.num < 0
  /\ hin.raw[3].totalEquity > hin.raw[1].totalEquity
  /\ hout.rows[3].drawdown.num = 0

(***************************************************************************)
(* Properties of TableSpec                                                 *)
(***************************************************************************)
\* C15: the hold duration a view works with is exitTime - entryTime for a
\* closed trade and now - entryTime for an open one, in TradeExplorer
\* (holdMs) and in LivePositions (fmtHold).
C15_HoldDuration ==
  \A k \in DOMAIN hin.rows :
    LET t == hin.rows[k]
        expected == IF t.exitTime.null THEN clock - t.entryTime
                                       ELSE t.exitTime.at - t.entryTime
    IN /\ view = "TradeExplorer" => holdMs(t) = expected
       /\ view = "LivePositions" => liveHoldMs(t, clock) = expected

\* C16: selecting the current sort key flips the direction and keeps the
\* key, and selecting it once more restores the direction; selecting another
\* key sets the key and the default direction of that key (StrategyComparison:
\* asc for name, desc otherwise; TradeExplorer: desc for entryTime, asc
\* otherwise) whatever the direction was.  No step changes the committed
\* records.
C16_SortSelection ==
  [][/\ hin' = hin
     /\ \A key \in SortKeys(view) :
          ui' = handleSort(view, ui, key) =>
            /\ ui'.sortKey = key
            /\ key = ui.sortKey =>
                 /\ ui'.sortDir # ui.sortDir
                 /\ ui'.sortDir \in {"asc", "desc"}
                 /\ handleSort(view, ui', key).sortKey = key
                 /\ handleSort(view, ui', key).sortDir = ui.sortDir
            /\ key # ui.sortKey =>
                 ui'.sortDir =
                   IF view = "StrategyComparison"
                     THEN (IF key = "name" THEN "asc" ELSE "desc")
                     ELSE (IF key = "entryTime" THEN "desc" ELSE "asc")]_vars

\* A column other than the initial one was selected twice in a row: the
\* direction is the opposite of that column's default.
C16_Witness ==
  /\ view \in {"TradeExplorer", "StrategyComparison"}
  /\ ui.sortKey \in {"strategy", "name"}
  /\ ui.sortDir = "desc"
  /\ Len(hin.rows) > 0

\* Every order in which the five filters can be applied.
FilterOrders ==
  {[k \in DOMAIN FilterNames |-> FilterNames[o[k]]] :
     o \in {f \in [DOMAIN FilterNames -> DOMAIN FilterNames] :
              \A i, j \in DOMAIN FilterNames : i # j => f[i] # f[j]}}

\* C17: the trades TradeExplorer keeps are those that pass every filter
\* (strategy, asset, winners / losers, date range): applying the filters in
\* any order gives the same result, the result holds committed trades only,
\* and a filter set to 'all' or to an empty date removes nothing.
C17_FiltersCompose ==
  view = "TradeExplorer" =>
    LET tr  == hin.rows
        res == filtered(ui, tr)
        AllPass(t) ==
          /\ ui.strategyFilter # "all" => t.strategy = ui.strategyFilter
          /\ ui.assetFilter # "all" => t.asset = ui.assetFilter
          /\ ui.pnlFilter = "winners" => t.realisedPnl > 0
          /\ ui.pnlFilter = "losers" => t.realisedPnl < 0
          /\ passes("dateFrom", ui, t)
          /\ passes("dateTo", ui, t)
    IN /\ res = SelectSeq(tr, AllPass)
       /\ \A order \in FilterOrders : filterBy(order, ui, tr) = res
       /\ \A k \in DOMAIN res : \E j \in DOMAIN tr : tr[j] = res[k]
       /\ \A i \in DOMAIN FilterNames :
            ui[FilterNames[i]] \in {"all", ""}
              => filterBy(<<FilterNames[i]>>, ui, tr) = tr

\* Strategy and asset filters are both set and keep one trade of three.
C17_Witness ==
  /\ view = "TradeExplorer"
  /\ Len(hin.rows) = 3
  /\ ui.strategyFilter = "polymarket_pure"
  /\ ui.assetFilter = "BTC"
  /\ Len(filtered(ui, hin.rows)) = 1

\* C18: the date range keeps a trade iff start of dateFrom <= entryTime <
\* start of dateTo + 24 h: a trade entered at the first instant of the
\* dateFrom day or at any instant of the dateTo day is kept, one entered at
\* the first instant of the next day is dropped; with dateFrom later than
\* dateTo nothing is kept and the view renders its empty state.
C18_DateRangeInclusive ==
  view = "TradeExplorer" =>
    LET tr == hin.rows
        StartOf(d) == IF d = "1970-01-02" THEN 86400000 ELSE 172800000
        InRange(t) ==
          /\ ui.dateFrom # "" => StartOf(ui.dateFrom) <= t.entryTime
          /\ ui.dateTo # "" => t.entryTime < StartOf(ui.dateTo) + 86400000
        kept == filterBy(<<"dateFrom", "dateTo">>, ui, tr)
        Entered(ms) == {k \in DOMAIN kept : kept[k].entryTime = ms}
    IN /\ kept = SelectSeq(tr, InRange)
       /\ (ui.dateFrom = "1970-01-02" /\ ui.dateTo = "1970-01-02") =>
            /\ Cardinality(Entered(86400000)) =
                 Cardinality({k \in DOMAIN tr : tr[k].entryTime = 86400000})
            /\ Cardinality(Entered(172799999)) =
                 Cardinality({k \in DOMAIN tr : tr[k].entryTime = 172799999})
            /\ Entered(172800000) = {}
       /\ (ui.dateFrom = "1970-01-03" /\ ui.dateTo = "1970-01-02") =>
            /\ filtered(ui, tr) = <<>>
            /\ renderRows(Len(filtered(ui, tr))) = "te-empty"

\* Both ends are 1970-01-02: of the three trades the one entered at the
\* start of that day and the one entered in its last millisecond are kept.
C18_Witness ==
  /\ view = "TradeExplorer"
  /\ Len(hin.rows) = 3
  /\ ui.strategyFilter = "all" /\ ui.assetFilter = "all" /\ ui.pnlFilter = "all"
  /\ ui.dateFrom = "1970-01-02"
  /\ ui.dateTo = "1970-01-02"
  /\ Len(filtered(ui, hin.rows)) = 2

(***************************************************************************)
(* Properties of Spec: the polling effect                                  *)
(***************************************************************************)
\* The cycles that settle in this step.
Settled == {l \in loads : \A l2 \in loads' : l2.id # l.id}

\* A cycle of the current effect run of the mounted view, for its platform.
Current(l) ==
  /\ mounted
  /\ l.eff = Len(effects)
  /\ l.platform = platform

\* C1: in the views with an `active` flag, a step that changes the data,
\* error, loading or last-update state is the settling of a cycle of the
\* current effect run of the mounted view; a response arriving after the
\* unmount or after the platform change writes nothing.
C1_NoStaleWrite ==
  [][(view \in FlagViews /\ ui' # ui) => \E l \in Settled : Current(l)]_vars

\* The first cycle of a view keyed on the platform settled after the
\* platform had changed, and the state is still the initial one.
C1_Witness ==
  /\ view \in FlagViews
  /\ Keyed(view)
  /\ mounted
  /\ Len(effects) = 2
  /\ \A l \in loads : l.id # 1
  /\ ui = InitialUi

\* C2: in the views that read a file, a step that changes the state is the
\* settling of a cycle started for the platform now shown.
C2_FileViewsDropStale ==
  [][(view \in FileViews /\ ui' # ui) => \E l \in Settled : Current(l)]_vars

\* C3: a cycle is started only by the newest effect run of the mounted
\* view; an effect run that was cleaned up starts none.
C3_NoFetchAfterCleanup ==
  [][issued' = issued + 1 =>
       \E l \in loads' \ loads :
         /\ l.id = issued'
         /\ mounted'
         /\ l.eff = Len(effects')]_vars

\* The first effect run was cleaned up by a platform change, and the interval
\* of the second one has started a cycle next to that run's first cycle.
C3_Witness ==
  /\ HasInterval(view)
  /\ Len(effects) = 2
  /\ ~effects[1].timer
  /\ Cardinality(loads) = 2
  /\ \A l \in loads : l.eff = 2

\* The signals StrategyHealth shows for strategy i when its sub-request ended
\* as the fan-out entry `sub` says.
ShownSignals(i, sub) ==
  IF sub.st = "caught" THEN <<>> ELSE ServerSignals(ServerStrategies[i].name)

\* C5: when the last signals sub-request of a StrategyHealth cycle of the
\* live effect run arrives, the cycle commits whatever sub-requests failed:
\* no error is set, the rows are the strategies in their order, a strategy
\* whose sub-request failed shows no signals, every other strategy shows
\* its own signals, and every signal shown in a row is of that row's strategy.
C5_FailedSubRequestIsolated ==
  [][\A l \in Settled :
       (/\ view = "StrategyHealth"
        /\ Writes(l)
        /\ l.c.strategies = "ok"
        /\ l.aux = "ok")
       => /\ ui'.error = NoError
          /\ ui'.loading = FALSE
          /\ ui'.lastUpdate = UpdatedAt(clock)
          /\ DOMAIN ui'.data = StrategyIds
          /\ \A i \in StrategyIds :
               LET row == ui'.data[i]
               IN /\ row.strategy = ServerStrategies[i]
                  /\ IF l.c.subs[i].st = "pending"
                       THEN row.signals \in {<<>>, ShownSignals(i, l.c.subs[i])}
                       ELSE row.signals = ShownSignals(i, l.c.subs[i])
                  /\ \A k \in DOMAIN row.signals :
                       row.signals[k].metadata.source = row.strategy.name]_vars

\* A cycle has committed in which the signals of the first strategy failed
\* and those of the second arrived.
C5_Witness ==
  /\ view = "StrategyHealth"
  /\ ui.error = NoError
  /\ ui.lastUpdate.set
  /\ DOMAIN ui.data = StrategyIds
  /\ ui.data[1].signals = <<>>
  /\ ui.data[2].signals = ServerSignals(ServerStrategies[2].name)
  /\ ui.data[2].signals # <<>>

\* The views that poll the API.
ApiViews ==
  {"TradeExplorer", "LivePositions", "StrategyHealth", "StrategyComparison",
   "EquityCurve"}

\* What the cycle l can become by the failure of one of its requests: a
\* non-success status or a transport failure of the strategies request, of
\* the summary / health request, of a per-strategy request, or of the one
\* request of EquityCurve.
FailedArrivals(l) ==
  {HealthFanOut([l EXCEPT !.c = OnStrategies(l.c, FALSE)]) :
     x \in {y \in {1} : l.c.strategies = "pending"}}
  \cup {[l EXCEPT !.aux = "fail"] : x \in {y \in {1} : l.aux = "pending"}}
  \cup {[l EXCEPT !.c = OnSub(l.c, i, FALSE)] :
          i \in {j \in StrategyIds : l.c.subs[j].st = "pending"}}
  \cup {[l EXCEPT !.req = o] :
          o \in {y \in {"notok", "fail"} : l.req = "pending"}}

\* The state of the view after the cycle, become l2, has run to its end.
AfterCycle(l2) == Finish(view, l2, ui, Writes(l2), clock)

\* C19 as stated: in the API-polling views, when a request of a cycle of
\* the live effect run fails and the cycle is over with it, the data state
\* is left as it was and the error state is set to a message.
C19_AnyFailureKeepsData ==
  view \in ApiViews =>
    \A l \in loads : \A l2 \in FailedArrivals(l) :
      (Writes(l) /\ LoadState(view, l2) # "pending") =>
        LET after == AfterCycle(l2)
        IN after.data = ui.data /\ after.error # NoError

\* C19, amended: in the API-polling views, when a request of a cycle of the
\* live effect run fails and the cycle rejects with it (every request but
\* a signals sub-request of StrategyHealth, whose failure is caught), the
\* data, summary / health and last-update states are left as they were, the
\* error state is set to the message of the failure and loading is cleared.
C19_FailedCycleKeepsData ==
  view \in ApiViews =>
    \A l \in loads : \A l2 \in FailedArrivals(l) :
      /\ (view # "StrategyHealth" \/ l.c.strategies = "pending" \/ l.aux = "pending")
           => LoadState(view, l2) = "rejected"
      /\ (Writes(l) /\ LoadState(view, l2) = "rejected") =>
           LET after == AfterCycle(l2)
           IN /\ after.error \in
                   {"Failed to fetch", "API /api/strategies", "API /api/health",
                    "API /api/summary", "API /api/strategies/:name",
                    "API /api/equity-curve"}
              /\ after = [ui EXCEPT !.error = after.error, !.loading = FALSE]

\* A cycle failed after an earlier one had committed: the data is still
\* shown next to the error.
C19_Witness ==
  /\ view \in ApiViews
  /\ mounted
  /\ ui.error # NoError
  /\ ui.lastUpdate.set
  /\ ui.data # <<>>

\* C20: in the file-based views that handle a non-success status in place
\* (AlertsViewer and PaperTradingMetrics; TradesLog has the code of
\* AlertsViewer), when a poll gets a non-success status after an earlier
\* poll committed data, the data state is left as it was and the error
\* state is set.
C20_NotOkKeepsData ==
  view \in {"AlertsViewer", "PaperTradingMetrics"} =>
    \A l \in loads :
      (l.req = "pending" /\ Writes(l) /\ ~ui.loading /\ ui.data # <<>>) =>
        /\ AfterCycle([l EXCEPT !.req = "notok"]).data = ui.data
        /\ AfterCycle([l EXCEPT !.req = "notok"]).error # NoError

(***************************************************************************)
(* FeedSpec: one read of a JSONL feed, by AlertsViewer, by TradesLog or by *)
(* GET /api/alerts of the single-process server                            *)
(***************************************************************************)
MaxLines == 3

\* alerts.slice(-100)
AlertsReturned == 100

FeedReaders == {"AlertsViewer", "TradesLog", "/api/alerts"}

\* The k-th line of a feed: a JSON object, a blank line, text JSON.parse
\* throws on, or a JSON value that is falsy.
FeedLine(kind, k) ==
  CASE kind = "json"  -> JsonLine("feed", k)
    [] kind = "blank" -> BlankLine
    [] kind = "bad"   -> BadLine
    [] OTHER          -> FalsyLine

\* a feed of n objects, but for its line `bad`
LongFeed(n, bad) ==
  [k \in 1..n |-> FeedLine(IF k = bad THEN "bad" ELSE "json", k)]

\* arr.slice(-n)
SliceLast(arr, n) ==
  IF Len(arr) <= n THEN arr ELSE SubSeq(arr, Len(arr) - n + 1, Len(arr))

readFeedAborting(reader, text) ==
  IF \E k \in DOMAIN text : text[k].kind = "bad"
    THEN [error |-> "Unexpected token", list |-> <<>>]
    ELSE [error |-> NoError,
          list  |-> IF reader = "/api/alerts"
                      THEN SliceLast(ParseJsonl(text), AlertsReturned)
                      ELSE ParseJsonl(text)]

\* The list a reader hands on (setAlerts, setTrades, res.json), and the
\* error of its outer catch block.
readFeed(reader, text) ==
  [error |-> NoError,
   list  |-> IF reader = "/api/alerts"
               THEN SliceLast(ParseJsonl(text), AlertsReturned)
               ELSE ParseJsonl(text)]

FeedInit ==
  /\ srv = [i \in 1..NumStrategies |-> NoExchanges]
  /\ call = IdleCall
  /\ \E reader \in FeedReaders :
     \E kinds \in SeqsUpTo({"json", "blank", "bad", "falsy"}, MaxLines) :
     \E text \in {[k \in DOMAIN kinds |-> FeedLine(kinds[k], k)],
                  LongFeed(AlertsReturned + 1, 0),
                  LongFeed(AlertsReturned + 2, 51)} :
       hin = [given |-> TRUE, reader |-> reader, text |-> text]
  /\ hout = NotEvaluated
  /\ NoView

FeedRead ==
  /\ hin.given /\ ~hout.done
  /\ hout' = [done |-> TRUE] @@ readFeed(hin.reader, hin.text)
  /\ UNCHANGED <<srv, call, hin, pollVars>>

FeedSpec == FeedInit /\ [][FeedRead]_vars

\* the positions of the lines of a feed that hold a record
RecordLines(text) == {k \in DOMAIN text : text[k].kind = "json"}

\* the positions of the lines that are not blank and that JSON.parse accepts
ParsedLines(text) == {k \in DOMAIN text : text[k].kind \in {"json", "falsy"}}

\* C21 as stated: a read never fails, and the list it hands on holds exactly
\* the values of the lines that are neither blank nor unparsable, in file
\* order.
C21_ExactlyRemainingLines ==
  hout.done =>
    /\ hout.error = NoError
    /\ Len(hout.list) = Cardinality(ParsedLines(hin.text))
    /\ \A j \in DOMAIN hout.list :
         \E k \in ParsedLines(hin.text) :
           /\ hout.list[j] = hin.text[k].value
           /\ Cardinality({m \in ParsedLines(hin.text) : m < k}) = j - 1

\* C21: a read never fails because of a line; blank lines, lines JSON.parse
\* throws on and lines holding a falsy JSON value are dropped; the list handed
\* on holds the records of the other lines in file order, all of them in
\* AlertsViewer and TradesLog and the last 100 of them in GET /api/alerts; a
\* corrupt line hides no record.
C21_CorruptLineHidesNothing ==
  hout.done =>
    LET kept  == RecordLines(hin.text)
        list  == hout.list
        limit == IF hin.reader = "/api/alerts"
                   THEN AlertsReturned ELSE Len(hin.text)
    IN /\ hout.error = NoError
       /\ Len(list) = IF Cardinality(kept) <= limit
                        THEN Cardinality(kept) ELSE limit
       /\ \A j \in DOMAIN list :
            /\ list[j].n \in kept
            /\ list[j] = hin.text[list[j].n].value
            /\ \A i \in 1..(j - 1) : list[i].n < list[j].n
       /\ \A k \in kept :
            \/ \E j \in DOMAIN list : list[j].n = k
            \/ /\ Len(list) = limit
               /\ k < list[1].n

\* A feed with a corrupt line between two records was read, and both
\* records were handed on.
C21_Witness ==
  /\ hout.done
  /\ Len(hin.text) = 3
  /\ hin.text[2].kind = "bad"
  /\ Len(hout.list) = 2
  /\ hout.list[1].n = 1
  /\ hout.list[2].n = 3

(***************************************************************************)
(* Properties of the aggregating views (Spec)                              *)
(***************************************************************************)
AggViews == {"TradeExplorer", "LivePositions"}

\* the trades the server holds for the strategies I, as <<i, k>>
Held(I, openOnly) ==
  UNION {{<<i, k>> : k \in DOMAIN ServerTrades(StrategyNames[i], openOnly)}
           : i \in I}

\* list holds every trade of the strategies I once, tagged with its
\* strategy, and nothing else
WholeMerge(list, I, openOnly) ==
  /\ Len(list) = Cardinality(Held(I, openOnly))
  /\ \A ik \in Held(I, openOnly) :
       LET raw == ServerTrades(StrategyNames[ik[1]], openOnly)[ik[2]]
       IN Cardinality({j \in DOMAIN list :
                         /\ list[j].strategy = StrategyNames[ik[1]]
                         /\ list[j].id = raw.id
                         /\ list[j].status = raw.status}) = 1

\* C22: the records TradeExplorer and LivePositions hold are the empty
\* list they start with or the whole merged result of one cycle: they change
\* only in the step in which a cycle settles, every trades sub-request of
\* that cycle has answered by then, and the new list holds every trade of
\* every strategy of the cycle's platform; the records of only some
\* strategies of a cycle in progress are never in the state.
C22_NoPartialExposure ==
  [][(view \in AggViews /\ ui'.data # ui.data) =>
       \E l \in Settled :
         LET I == Members(l.platform)
         IN /\ \A i \in I : l.c.subs[i].st \in {"ok", "pending"}
            /\ Cardinality({i \in I : l.c.subs[i].st = "pending"}) <= 1
            /\ WholeMerge(ui'.data, I, view = "LivePositions")]_vars

\* TradeExplorer shows the three trades of a committed cycle while a later
\* cycle holds the answer of one strategy and awaits the other.
C22_Witness ==
  /\ view = "TradeExplorer"
  /\ Len(ui.data) = 3
  /\ \E l \in loads :
       /\ l.c.subs[1].st = "ok"
       /\ l.c.subs[2].st = "pending"

(***************************************************************************)
(* Properties of overlapping cycles (Spec)                                 *)
(***************************************************************************)
\* What the cycle l can become by the success of one of its requests.
OkArrivals(l) ==
  {HealthFanOut([l EXCEPT !.c = OnStrategies(l.c, TRUE)]) :
     x \in {y \in {1} : l.c.strategies = "pending"}}
  \cup {HealthFanOut([l EXCEPT !.aux = "ok"]) :
          x \in {y \in {1} : l.aux = "pending"}}
  \cup {[l EXCEPT !.c = OnSub(l.c, i, TRUE)] :
          i \in {j \in StrategyIds : l.c.subs[j].st = "pending"}}
  \cup {[l EXCEPT !.req = "ok"] : x \in {y \in {1} : l.req = "pending"}}

\* C23: in the API-polling views the interval of the mounted view starts a
\* cycle while earlier ones are in flight, and every cycle of the live effect
\* run writes its own result when it settles, whatever cycles were started
\* after it and whether or not they have settled: a fulfilled cycle writes its
\* data, the instant of its commit and no error, a rejected one its message.
\* The state after two overlapping cycles is therefore the one the cycle that
\* settled last has written, also when that cycle was started first.
C23_LastSettledWins ==
  (view \in ApiViews /\ mounted) =>
    /\ (loads # {} /\ CanIssue) => ENABLED Tick
    /\ \A l \in loads : \A l2 \in OkArrivals(l) \cup FailedArrivals(l) :
         Writes(l) =>
           LET after == AfterCycle(l2)
           IN CASE LoadState(view, l2) = "fulfilled" ->
                     /\ after.data = DataOf(view, l2, clock)
                     /\ after.lastUpdate = UpdatedAt(clock)
                     /\ after.error = NoError
                     /\ ~after.loading
                [] LoadState(view, l2) = "rejected" ->
                     /\ after.error = ErrorOf(view, l2)
                     /\ ~after.loading
                [] OTHER -> TRUE   \* the cycle awaits more answers

\* The first cycle is still in flight after the second one, started by the
\* interval of the same effect run, has failed and set the error.
C23_Witness ==
  /\ view \in ApiViews
  /\ mounted
  /\ Len(effects) = 1
  /\ issued = 2
  /\ \E l \in loads : l.id = 1
  /\ Cardinality(loads) = 1
  /\ ui.error # NoError

(***************************************************************************)
(* HungSpec: TradeExplorer or LivePositions whose first cycle never gets   *)
(* an answer.  The interval fires as long as the view is mounted           *)
(* (setInterval), and the requests of the later cycles are answered.       *)
(***************************************************************************)
HungInit == Init /\ view \in AggViews

\* A request of a cycle other than the first is answered, or fails.
LaterAnswer ==
  /\ \E l \in loads :
       /\ l.id > 1
       /\ \E l2 \in OkArrivals(l) \cup FailedArrivals(l) : Arrive(l, l2)
  /\ UNCHANGED <<srv, pureVars, view, mounted, platform, effects, issued, clock>>

HungSpec ==
  /\ HungInit
  /\ [][Tick \/ PlatformChange \/ Unmount \/ LaterAnswer \/ Advance]_vars
  /\ WF_vars(Tick)
  /\ WF_vars(LaterAnswer)

\* C24: with the first request never answered, the interval goes on
\* starting cycles while the view is mounted; a later cycle of the live effect
\* run clears loading when it settles and, when all its requests succeeded,
\* commits the whole result for its platform; the records change in no other
\* step; loading, once false, stays false, also across platform changes; and
\* unless the view is unmounted before, every cycle the bound allows is
\* started and loading becomes false.
C24_HungRequestBlocksNothing ==
  /\ [][/\ ui'.data # ui.data => \E l \in Settled : l.id > 1 /\ Current(l)
        /\ ~ui.loading => ~ui'.loading
        /\ \A l \in Settled :
             Writes(l) =>
               /\ ~ui'.loading
               /\ ui'.error = NoError =>
                    /\ ui'.lastUpdate = UpdatedAt(clock)
                    /\ WholeMerge(ui'.data, Members(l.platform),
                                  view = "LivePositions")]_vars
  /\ <>(~mounted \/ (issued = MaxLoads /\ ~ui.loading))

\* The first cycle is still unanswered, the platform has changed since a
\* later cycle committed, and the view shows that cycle's records without a
\* loading indicator.
C24_Witness ==
  /\ \E l \in loads : l.id = 1
  /\ mounted
  /\ issued = 3
  /\ Len(effects) = 2
  /\ ~ui.loading
  /\ ui.lastUpdate.set
  /\ ui.data # <<>>

(***************************************************************************)
(* HealthViewSpec: StrategyHealth mounted, with its polling effect and its *)
(* 10-second tick effect.  hout holds the tick state.                      *)
(***************************************************************************)
HealthViewInit ==
  /\ srv = PolledExchanges
  /\ call = IdleCall
  /\ hin = NoInput
  /\ hout = [done |-> FALSE, tick |-> 0]
  /\ view = "StrategyHealth"
  /\ mounted = TRUE
  /\ platform = "polymarket"
  /\ effects = <<RunEffect(view, platform)>>
  /\ loads = {NewLoad(view, 1, 1, platform)}
  /\ issued = 1
  /\ ui = InitialUi
  /\ clock = 1000 * MsPerMinute

HealthTickRebuilds ==
  /\ mounted
  /\ hout.tick < MaxTicks
  /\ hout' = [hout EXCEPT !.tick = @ + 1]
  /\ ui' = [ui EXCEPT !.data =
              [i \in DOMAIN ui.data |->
                 [ui.data[i] EXCEPT !.alerts =
                    buildAlerts(ui.data[i].strategy, ui.data[i].signals, clock)]]]
  /\ UNCHANGED <<srv, call, hin, view, mounted, platform, effects, loads,
                 issued, clock>>

\* setInterval(() => setTick(n => n + 1), 10_000)
HealthTick ==
  /\ mounted
  /\ hout.tick < MaxTicks
  /\ hout' = [hout EXCEPT !.tick = @ + 1]
  /\ UNCHANGED <<srv, call, hin, pollVars>>

HealthViewSpec ==
  HealthViewInit /\
  [][Tick \/ Unmount \/ StrategiesRespond \/ AuxRespond \/ SubRespond
       \/ Advance \/ HealthTick]_vars

\* C25: the rows of StrategyHealth change only in the step in which a
\* cycle of the live effect run commits, and the alerts a row holds are the
\* ones buildAlerts gives for the row's strategy and signals at the instant
\* of that commit; the tick and the passing of time change none of them.
C25_AlertsFrozenBetweenCommits ==
  [][/\ ui'.data # ui.data => \E l \in Settled : Writes(l)
     /\ ui'.lastUpdate.set =>
          \A i \in DOMAIN ui'.data :
            ui'.data[i].alerts =
              buildAlerts(ui'.data[i].strategy, ui'.data[i].signals,
                          ui'.lastUpdate.at)]_vars

\* The newest signal of the first strategy has become older than the
\* threshold since the last commit and the tick has fired, a later poll has
\* failed, and the row holds no silence alert although buildAlerts would
\* now give one.
C25_Witness ==
  /\ mounted
  /\ hout.tick > 0
  /\ ui.lastUpdate.set
  /\ ui.lastUpdate.at < clock
  /\ ui.error # NoError
  /\ ui.data[1].signals # <<>>
  /\ \A k \in DOMAIN ui.data[1].alerts : ~IsSilence(ui.data[1].alerts[k])
  /\ \E k \in DOMAIN buildAlerts(ui.data[1].strategy, ui.data[1].signals, clock) :
       IsSilence(buildAlerts(ui.data[1].strategy, ui.data[1].signals, clock)[k])

(***************************************************************************)
(* RankSpec: the rank-table sorts of AlertsViewer (by strength) and of     *)
(* TradesLog (by result)                                                   *)
(***************************************************************************)
MaxRows == 3

\* the values of `strength` and of `result`; the last of each is in no table
RankValues(table) ==
  IF table = "AlertsViewer" THEN {"EXTREME", "STRONG", "MODERATE", "WEAK"}
                            ELSE {"WIN", "LOSS", "OPEN", "PUSH"}

\* strengthOrder[a.strength] and order[a.result]: -1 stands for undefined
orderOf(table, x) ==
  CASE x \in {"EXTREME", "WIN"}   -> 0
    [] x \in {"STRONG", "LOSS"}   -> 1
    [] x \in {"MODERATE", "OPEN"} -> 2
    [] OTHER                      -> 0 - 1

\* (strengthOrder[a.strength] || 3) and (order[a.result] || 2): 0 and
\* undefined are both falsy
rankOf(table, x) ==
  IF orderOf(table, x) \in {0, 0 - 1}
    THEN (IF table = "AlertsViewer" THEN 3 ELSE 2)
    ELSE orderOf(table, x)

\* [...rows].sort((a, b) => rank(a) - rank(b)): Array.prototype.sort is
\* stable, so rows of one rank keep their order
getSorted(table, rows) ==
  LET Of(r) == SelectSeq(rows, LAMBDA a : rankOf(table, a.key) = r)
  IN Of(0) \o Of(1) \o Of(2) \o Of(3)

RankInit ==
  /\ srv = [i \in 1..NumStrategies |-> NoExchanges]
  /\ call = IdleCall
  /\ \E table \in {"AlertsViewer", "TradesLog"} :
     \E keys \in SeqsUpTo(RankValues(table), MaxRows) :
       hin = [given |-> TRUE, table |-> table,
              rows |-> [k \in DOMAIN keys |-> [n |-> k, key |-> keys[k]]]]
  /\ hout = NotEvaluated
  /\ NoView

\* sortBy is 'strength' or 'result' and the view renders
RankSort ==
  /\ hin.given /\ ~hout.done
  /\ hout' = [done |-> TRUE, sorted |-> getSorted(hin.table, hin.rows)]
  /\ UNCHANGED <<srv, call, hin, pollVars>>

RankSpec == RankInit /\ [][RankSort]_vars

\* the rank the tables declare: EXTREME, STRONG, MODERATE, then the rest;
\* WIN, LOSS, then OPEN and the rest
DeclaredRank(table, x) ==
  CASE x \in {"EXTREME", "WIN"} -> 0
    [] x \in {"STRONG", "LOSS"} -> 1
    [] x = "MODERATE"            -> 2
    [] x = "OPEN"                -> 2
    [] OTHER                     -> IF table = "AlertsViewer" THEN 3 ELSE 2

\* C26: the sorted list holds the rows it was given, and a row never stands
\* behind a row of a later declared rank: every EXTREME alert before every
\* STRONG one, every STRONG before every MODERATE, unknown strengths last;
\* every WIN before every LOSS, every LOSS before every OPEN or unknown
\* result.
C26_RankOrder ==
  hout.done =>
    /\ Len(hout.sorted) = Len(hin.rows)
    /\ \A k \in DOMAIN hin.rows :
         \E j \in DOMAIN hout.sorted : hout.sorted[j] = hin.rows[k]
    /\ \A i, j \in DOMAIN hout.sorted :
         i < j => DeclaredRank(hin.table, hout.sorted[i].key)
                    <= DeclaredRank(hin.table, hout.sorted[j].key)

(***************************************************************************)
(* FmtSpec: fmtHold of LivePositions and of TradeExplorer on a duration    *)
(***************************************************************************)
\* The text of a hold time as its template and the numbers put in it.
fmtHold(v, ms) ==
  IF ms < 0 \/ (v = "TradeExplorer" /\ ms = 0) THEN Ago("-", 0, 0)
  ELSE LET secs == RoundDiv(ms, 1000)
       IN IF secs < 60 THEN Ago("{}s", secs, 0)
          ELSE IF secs < 3600 THEN Ago("{}m", RoundDiv(secs, 60), 0)
          ELSE LET h == secs \div 3600
                   m == RoundDiv(secs % 3600, 60)
               IN IF m > 0 THEN Ago("{}h {}m", h, m) ELSE Ago("{}h", h, 0)

\* Durations around the places where the form of the text changes.
FmtInit ==
  /\ srv = [i \in 1..NumStrategies |-> NoExchanges]
  /\ call = IdleCall
  /\ \E v \in {"LivePositions", "TradeExplorer"} :
     \E secs \in {0, 1, 59, 60, 89, 90, 3569, 3570, 3599, 3600, 3629, 3630,
                  7169, 7170, 7199} :
     \E part \in {0 - 1, 0, 499, 500} :
       hin = [given |-> TRUE, view |-> v, ms |-> secs * 1000 + part]
  /\ hout = NotEvaluated
  /\ NoView

\* A row with this hold time is rendered.
FmtHold ==
  /\ hin.given /\ ~hout.done
  /\ hout' = [done |-> TRUE, text |-> fmtHold(hin.view, hin.ms)]
  /\ UNCHANGED <<srv, call, hin, pollVars>>

FmtSpec == FmtInit /\ [][FmtHold]_vars

\* C27: for a duration that is not negative, the seconds form and the
\* minutes form hold a number below 60, and the minutes of the hours form
\* are between 1 and 59.
C27_HoldWellFormed ==
  (hout.done /\ hin.ms >= 0) =>
    /\ hout.text.text \in {"{}s", "{}m"} => hout.text.a \in 0..59
    /\ hout.text.text = "{}h {}m" => hout.text.b \in 1..59

(***************************************************************************)
(* ExpandSpec: TradeExplorer with its row clicks, next to the sort and     *)
(* filter controls and the commits of its poll                             *)
(***************************************************************************)
\* onClick={() => toggleExpand(t.id)} on a row that is rendered:
\* setExpandedId(prev => prev === id ? null : id)
ToggleExpand ==
  /\ \E t \in {filtered(ui, hin.rows)[j] : j \in DOMAIN filtered(ui, hin.rows)} :
       ui' = [ui EXCEPT !.expandedId =
                IF @ = [null |-> FALSE, id |-> t.id]
                  THEN Null ELSE [null |-> FALSE, id |-> t.id]]
  /\ UNCHANGED <<srv, pureVars, view, mounted, platform, effects, loads, issued, clock>>

\* setTrades(data) of a cycle of the poll: the trades alone are replaced
TradesCommit ==
  /\ \E S \in SUBSET DOMAIN TradePool :
       hin' = [hin EXCEPT !.rows = Committed(view, S)]
  /\ UNCHANGED <<srv, call, hout, pollVars>>

ExpandInit == TableInit /\ view = "TradeExplorer"

ExpandSpec ==
  ExpandInit /\
  [][HandleSort \/ SetFilter \/ ToggleExpand \/ TradesCommit]_vars

\* the rows rendered with their detail row: expandedId === t.id
ExpandedRows ==
  {j \in DOMAIN filtered(ui, hin.rows) :
     /\ ~ui.expandedId.null
     /\ ui.expandedId.id = filtered(ui, hin.rows)[j].id}

\* C28: at most one row of the table is rendered expanded, whatever the
\* row clicks, sort and filter changes and commits before, also when the
\* list holds trades of several strategies.
C28_AtMostOneExpanded == Cardinality(ExpandedRows) <= 1

(***************************************************************************)
(* Properties of the platform change (Spec)                                *)
(***************************************************************************)
\* the records in state whose strategy does not trade on platform p
Foreign(data, p) ==
  {j \in DOMAIN data :
     \A i \in Members(p) : data[j].strategy # StrategyNames[i]}

\* C29: in TradeExplorer and LivePositions a platform change leaves the
\* whole state of the view as it is, records and loading included; the
\* records change next in the step in which a cycle started for the platform
\* now selected settles; and right after a cycle has committed, every record
\* in state is of a strategy of the selected platform.
C29_PlatformChangeKeepsRecords ==
  [][(view \in AggViews) =>
       (/\ platform' # platform => ui' = ui
        /\ ui'.data # ui.data =>
             \E l \in Settled : Writes(l) /\ l.platform = platform
        /\ \A l \in Settled :
             (Writes(l) /\ ui'.error = NoError) =>
               Foreign(ui'.data, platform') = {})]_vars

\* After a change to hyperliquid the view still shows, without a loading
\* indicator, a trade of a strategy that trades on polymarket alone.
C29_Witness ==
  /\ view \in AggViews
  /\ mounted
  /\ platform = "hyperliquid"
  /\ ~ui.loading
  /\ Foreign(ui.data, platform) # {}

(***************************************************************************)
(* Properties of the error state (Spec)                                    *)
(***************************************************************************)
\* C30: in the API-polling views the error state changes only in the step
\* in which a cycle of the live effect run settles, and it is then the
\* outcome of that cycle whatever it was before and whatever cycles were
\* started since: no error, next to the instant of the commit, when the
\* cycle is fulfilled; a message, next to the records and the instant of
\* the last commit, when it is rejected.  The success of an older cycle thus
\* clears the error a newer cycle has set.
C30_ErrorFollowsLastSettled ==
  [][(view \in ApiViews) =>
       (/\ ui'.error # ui.error => \E l \in Settled : Writes(l)
        /\ \A l \in Settled :
             Writes(l) =>
               \E l2 \in OkArrivals(l) \cup FailedArrivals(l) :
                 CASE LoadState(view, l2) = "fulfilled" ->
                        /\ ui'.error = NoError
                        /\ ui'.lastUpdate = UpdatedAt(clock)
                   [] LoadState(view, l2) = "rejected" ->
                        /\ ui'.error # NoError
                        /\ ui'.data = ui.data
                        /\ ui'.lastUpdate = ui.lastUpdate
                   [] OTHER -> FALSE)]_vars

\* The second cycle has failed and set the error, nothing was committed
\* yet, and the first cycle, still in flight, is one answer from success.
C30_Witness ==
  /\ view \in ApiViews
  /\ mounted
  /\ Len(effects) = 1
  /\ issued = 2
  /\ ui.error # NoError
  /\ ~ui.lastUpdate.set
  /\ \E l \in loads :
       /\ l.id = 1
       /\ \E l2 \in OkArrivals(l) : LoadState(view, l2) = "fulfilled"

====
